---- MODULE Spec2Model ----
(***************************************************************************)
(* Widget interaction and picking subsystem of the window manager          *)
(* (source/blender/windowmanager/intern/wm_widgets.c), as a state machine. *)
(*                                                                         *)
(* One widget map of one region is modelled: its widget groups, the heap   *)
(* of widgets the groups create and destroy, the interaction context       *)
(* (highlighted, active, selected) and the process-wide hash of visible    *)
(* widgets (draw_widgets).  Every C function is an operator from a state   *)
(* record to a state record; every action of Next is one call the event    *)
(* loop or the drawing code makes.                                         *)
(***************************************************************************)
EXTENDS Integers, Sequences, FiniteSets, TLC

(* ------------------------------ bounds --------------------------------- *)

\* Widget blocks in the heap at once, counting the blocks an update pass
\* allocates before it frees the old ones.
MaxAlloc == 5

\* Highlighted sub-part codes range over 0..MaxPart (0: no part).
MaxPart == 1

(* ------------------------- static population --------------------------- *)

NULL == 0

\* wmWidgetMap.widgetgroups at construction, in registration order.
InitGroups == <<1, 2>>

\* What the create callback of a group type can register, depending on the
\* context it is called in: sequences of widget kinds in creation order.
\* A kind fixes the callbacks and the bound operator the factory gives the
\* widget; its hidden flag is decided at each create.
GroupKinds(g) == IF g = 1 THEN {<<1>>} ELSE {<<2>>, <<3>>}

Kinds == {1, 2, 3}

\* Group types with a poll callback; the groups of the others always pass.
PollGroups == {1}

\* Names are strings: sequences of character codes.
CH_UNDERSCORE == 95

CH_DOT == 46

\* wmWidgetGroupType.idname of the group types of the map: "a" and "b".
GroupIdname(g) == <<96 + g>>

\* The raw name the factory passes to wm_widget_register for a widget of
\* kind k: "a", "b", "c".
RawName(k) == <<96 + k>>

\* WM_widget_set_func_select was called by the factory (WM_WIDGET_SELECTABLE).
SelectableKinds == {1, 3}

\* WM_widget_set_operator bound an operator name (widget->opname).
OpnameKinds == {2, 3}

\* widget->invoke is set.
InvokeKinds == {1, 3}

\* widget->handler is set.
HandlerKinds == {1, 3}

\* widget->invoke && widget->handler
InvokeHandlerKinds == InvokeKinds \cap HandlerKinds

\* widget->cancel is set.
CancelKinds == {1}

\* widget->get_cursor is set.
CursorKinds == {1}

\* widget->intersect is set (2D hit test).
IntersectKinds == {1, 3}

\* widget->render_3d_intersection is set (3D id render).
Render3DKinds == {1, 2, 3}

\* Kinds a factory creates with WM_WIDGET_HIDDEN set in some contexts.
HideableKinds == {1}

(* ------------------------------- state --------------------------------- *)

VARIABLES
    widgets,        \* heap: widgets[i] is the wmWidget with address i
    glist,          \* wmWidgetGroup.widgets of each group: sequence of addresses
    groups,         \* wmWidgetMap.widgetgroups: the groups still in the map
    poll,           \* current value of each group type's poll predicate
    ctx,            \* wmWidgetMap.wmap_context
    draw_widgets,   \* the static GHash *draw_widgets
    tweak,          \* op->customdata of the running WIDGETGROUP_OT_widget_tweak
    ophandler,      \* modal handler of the operator bound to the active widget
    is_3d,          \* wmWidgetMapType.is_3d
    crashed,        \* the process died of an invalid memory access
    pick3d,         \* locals of wm_widget_find_highlighted_3D_intern at its return
    type_idname     \* wmWidgetGroupType.idname of the type of each group

vars == <<widgets, glist, groups, poll, ctx, draw_widgets, tweak, ophandler,
          is_3d, crashed, pick3d, type_idname>>

Parts == 0..MaxPart

Min2(a, b) == IF a < b THEN a ELSE b

EmptyHash == [n \in {} |-> NULL]

RECURSIVE AsSeq(_, _)
\* The array of the n elements f[1] .. f[n].
AsSeq(f, n) == IF n = 0 THEN <<>> ELSE Append(AsSeq(f, n - 1), f[n])

\* The state the C functions work on.  ub: an access to freed or
\* unallocated memory, or a failed BLI_assert, happened in the call;
\* tagged: ED_region_tag_redraw was called; mousemove: WM_event_add_mousemove
\* was called; cursor: what WM_cursor_set was last called with; log: the
\* widget callbacks the call invoked and the teardown steps it took
\* ("deactivate": the deactivation branch of wm_widgetmap_set_active_widget,
\* "tweak_free": MEM_freeN of the tweak data), in order.
St ==
    [w |-> widgets, gl |-> glist, groups |-> groups, poll |-> poll,
     hl |-> ctx.highlighted_widget, act |-> ctx.active_widget,
     sel |-> ctx.selected_widgets, tot |-> ctx.tot_selected,
     dwNull |-> draw_widgets.null, dw |-> draw_widgets.h,
     tw |-> tweak, oph |-> ophandler,
     ub |-> FALSE, tagged |-> FALSE, mousemove |-> FALSE, cursor |-> "kept",
     log |-> <<>>]

(* --------------------------- memory helpers ---------------------------- *)

IsFreed(st, p) == st.w[p].frees > 0

\* Any read or write through p: undefined when p was freed.
Touch(st, p) == IF IsFreed(st, p) THEN [st EXCEPT !.ub = TRUE] ELSE st

\* MEM_freeN on the widget struct; a second free is undefined.
MemFree(st, p) ==
    [st EXCEPT !.w[p].frees = Min2(@ + 1, 2),
               !.ub = @ \/ st.w[p].frees > 0]

\* wm_widget_data_free: frees opptr, props and ptr of the widget.
wm_widget_data_free(st, p) ==
    LET s1 == Touch(st, p)
    IN  [s1 EXCEPT !.w[p].dfrees = Min2(@ + 1, 2),
                   !.ub = @ \/ st.w[p].dfrees > 0]

RemoveFirst(seq, x) ==
    LET idx == {i \in 1..Len(seq) : seq[i] = x}
    IN  IF idx = {} THEN seq
        ELSE LET i == CHOOSE j \in idx : \A k \in idx : j <= k
             IN  AsSeq([j \in 1..(Len(seq) - 1) |-> IF j < i THEN seq[j] ELSE seq[j + 1]],
                       Len(seq) - 1)

\* BLI_remlink(&wgroup->widgets, widget)
BLI_remlink(st, g, p) == [st EXCEPT !.gl[g] = RemoveFirst(@, p)]

\* wm_widget_delete(widgetlist, widget); g = NULL stands for a NULL list.
wm_widget_delete(st, g, p) ==
    LET s1 == wm_widget_data_free(st, p)
        s2 == IF g # NULL THEN BLI_remlink(s1, g, p) ELSE s1
    IN  MemFree(s2, p)

(* ------------------------------ the hash ------------------------------- *)

BLI_ghash_lookup(h, name) == IF name \in DOMAIN h THEN h[name] ELSE NULL

BLI_ghash_reinsert(h, name, p) ==
    [n \in (DOMAIN h) \cup {name} |-> IF n = name THEN p ELSE h[n]]

(* --------------------------- registration ------------------------------ *)

\* sizeof(widget->idname), the terminating NUL included.
IdnameSize == 12

\* The first n characters of a string.
StrLeft(s, n) == IF Len(s) <= n THEN s ELSE SubSeq(s, 1, n)

\* BLI_strncpy(dst, src, size): at most size - 1 characters are copied.
BLI_strncpy(src, size) == StrLeft(src, size - 1)

\* BLI_snprintf(dst, size, "%s_%s", a, b)
BLI_snprintf(size, a, b) == StrLeft(a \o <<CH_UNDERSCORE>> \o b, size - 1)

\* The defname argument of BLI_uniquename: "Widget".
DefName == <<87, 105, 100, 103, 101, 116>>

\* BLI_uniquename(list, vlink, "Widget", '.', name_offs, size) with the names
\* used of the other links of the list: an empty name becomes the default
\* name; a name in use gets the first free suffix ".001", ".002", ..., its
\* stem shortened where the buffer has no room for the suffix.
BLI_uniquename(used, name, size) ==
    LET nm == IF name = <<>> THEN DefName ELSE name
        Suffixed(n) == StrLeft(nm, size - 1 - 4) \o <<CH_DOT, 48, 48, 48 + n>>
        free == {n \in 1..MaxAlloc : Suffixed(n) \notin used}
    IN  IF nm \notin used THEN nm
        ELSE Suffixed(CHOOSE n \in free : \A m \in free : n <= m)

\* The string widget_unique_idname_set writes before it calls BLI_uniquename.
IdnameBase(g, raw) ==
    IF type_idname[g] # <<>>
    THEN BLI_snprintf(IdnameSize, type_idname[g], raw)
    ELSE BLI_strncpy(raw, IdnameSize)

\* widget_unique_idname_set without its call of BLI_uniquename.
IdnameSetNotUnique(st, g, raw) == IdnameBase(g, raw)

\* widget_unique_idname_set: "<group idname>_<rawname>", or the raw name for
\* a type without idname, made unique among the idnames of the group's list.
widget_unique_idname_set(st, g, raw) ==
    BLI_uniquename({st.w[st.gl[g][i]].idname : i \in 1..Len(st.gl[g])},
                   IdnameBase(g, raw), IdnameSize)

\* WM_widget_new followed by wm_widget_register(wgroup, widget, name), as a
\* factory does for a widget of kind k; hid is the hidden flag the factory
\* decides on.
wm_widget_register(st, g, k, name, hid) ==
    LET p == Len(st.w) + 1
        rec == [kind |-> k, wgroup |-> g,
                idname |-> widget_unique_idname_set(st, g, name),
                hidden |-> hid, highlight |-> FALSE, selected |-> FALSE,
                active |-> FALSE, part |-> 0, idata |-> FALSE,
                frees |-> 0, dfrees |-> 0]
    IN  [st EXCEPT !.w = Append(@, rec), !.gl[g] = Append(@, p)]

RECURSIVE CreateKinds(_, _, _, _)
\* wgroup->type->create(C, wgroup)
CreateKinds(st, g, ks, hid) ==
    IF ks = <<>> THEN st
    ELSE CreateKinds(wm_widget_register(st, g, Head(ks), RawName(Head(ks)),
                                        hid[Head(ks)]),
                     g, Tail(ks), hid)

(* ----------------------------- update pass ----------------------------- *)

\* widget_highlight_update
widget_highlight_update(st, old, new) ==
    LET s1 == Touch(Touch(st, old), new)
    IN  [s1 EXCEPT !.w[new].highlight = TRUE,
                   !.hl = new,
                   !.w[new].part = st.w[old].part]

RECURSIVE UpdatePartition(_, _, _, _)
\* Lines 248-266: delete the widgets of a group, keeping (unlinked) the
\* selected and the highlighted ones.  ws: the widgets still to visit.
UpdatePartition(r, g, ws, dummy) ==
    IF ws = <<>> THEN r
    ELSE LET p == Head(ws)
             st == r.st
             r1 == IF st.w[p].selected
                   THEN [r EXCEPT !.st = BLI_remlink(st, g, p)]
                   ELSE IF st.w[p].highlight
                   THEN [st |-> BLI_remlink(st, g, p), highlighted |-> p]
                   ELSE [r EXCEPT !.st = wm_widget_delete(st, g, p)]
         IN  UpdatePartition(r1, g, Tail(ws), dummy)

RECURSIVE UpdateInsert(_, _)
\* Lines 272-279: insert the unhidden widgets of the list into draw_widgets.
UpdateInsert(st, ws) ==
    IF ws = <<>> THEN st
    ELSE LET p == Head(ws)
         IN  UpdateInsert(
                 IF st.w[p].hidden THEN st
                 ELSE [st EXCEPT !.dw = BLI_ghash_reinsert(@, st.w[p].idname, p)],
                 Tail(ws))

RECURSIVE UpdateGroups(_, _, _, _)
\* Lines 245-284: the loop over the groups of the map.  mk[g]: the kinds
\* the factory of g registers in this pass.
UpdateGroups(r, gs, mk, hid) ==
    IF gs = <<>> THEN r
    ELSE LET g == Head(gs)
         IN  IF ~r.st.poll[g] THEN UpdateGroups(r, Tail(gs), mk, hid)
             ELSE LET r1 == UpdatePartition(r, g, r.st.gl[g], 0)
                      s2 == CreateKinds(r1.st, g, mk[g], hid)
                      s3 == UpdateInsert(s2, s2.gl[g])
                  IN  UpdateGroups([r1 EXCEPT !.st = s3], Tail(gs), mk, hid)

\* Lines 286-298: rebind or drop the highlighted widget that was kept.
UpdateHighlighted(st, highlighted) ==
    IF highlighted = NULL THEN st
    ELSE LET new == BLI_ghash_lookup(st.dw, st.w[highlighted].idname)
         IN  IF new # NULL
             THEN wm_widget_delete(widget_highlight_update(st, highlighted, new),
                                   NULL, highlighted)
             ELSE [MemFree(st, highlighted) EXCEPT !.hl = NULL]

RECURSIVE UpdateSelected(_, _)
\* Lines 300-321: rebind the selected widgets to their new instances.
UpdateSelected(st, i) ==
    IF i > st.tot THEN st
    ELSE LET sel_old == st.sel[i]
             s1 == Touch(st, sel_old)
             sel_new == BLI_ghash_lookup(s1.dw, s1.w[sel_old].idname)
         IN  IF sel_new = NULL THEN UpdateSelected(s1, i + 1)
             ELSE LET s2 == IF s1.w[sel_old].highlight
                            THEN widget_highlight_update(s1, sel_old, sel_new)
                            ELSE s1
                      s3 == Touch(wm_widget_data_free(s2, sel_old), sel_new)
                      s4 == [s3 EXCEPT !.w[sel_new].selected = TRUE,
                                       !.sel[i] = sel_new]
                  IN  UpdateSelected(s4, i + 1)

\* WM_widgetmap_widgets_update(C, wmap); mk, hid: what the factories decide.
WM_widgetmap_widgets_update(st, mk, hid) ==
    LET s0 == IF st.dwNull THEN [st EXCEPT !.dwNull = FALSE, !.dw = EmptyHash]
              ELSE st
    IN  IF s0.act # NULL
        THEN LET s1 == Touch(s0, s0.act)
             IN  IF ~s1.w[s1.act].hidden
                 THEN [s1 EXCEPT !.dw = BLI_ghash_reinsert(@, s1.w[s1.act].idname, s1.act)]
                 ELSE s1
        ELSE IF s0.groups = <<>> THEN s0
        ELSE LET r == UpdateGroups([st |-> s0, highlighted |-> NULL], s0.groups, mk, hid)
             IN  UpdateSelected(UpdateHighlighted(r.st, r.highlighted), 1)

\* Widgets one update pass allocates.
RECURSIVE AllocNeed(_, _, _)
AllocNeed(st, gs, mk) ==
    IF gs = <<>> THEN 0
    ELSE (IF st.poll[Head(gs)] THEN Len(mk[Head(gs)]) ELSE 0)
         + AllocNeed(st, Tail(gs), mk)

(* ------------------------------ draw pass ------------------------------ *)

\* WM_widgetmap_widgets_draw(C, wmap, in_scene, free_drawwidgets).  Drawing
\* changes no widget: the model records the widgets whose draw callback
\* runs (log) and the invalid accesses.
WM_widgetmap_widgets_draw(st, free_drawwidgets) ==
    LET act == st.act
        s1 == IF act # NULL
              THEN Touch(st, act)
              ELSE IF st.groups # <<>>
              THEN IF st.dwNull THEN [st EXCEPT !.ub = TRUE]
                   ELSE [st EXCEPT
                           !.ub = @ \/ \E n \in DOMAIN st.dw : IsFreed(st, st.dw[n]),
                           !.log = AsSeq([i \in 1..Cardinality(DOMAIN st.dw) |-> "draw"],
                                         Cardinality(DOMAIN st.dw))]
              ELSE st
        s2 == IF s1.tot > 0
              THEN [s1 EXCEPT !.ub = @ \/ s1.dwNull
                                   \/ \E i \in 1..s1.tot : IsFreed(s1, s1.sel[i])]
              ELSE s1
    IN  IF free_drawwidgets /\ ~s2.dwNull
        THEN [s2 EXCEPT !.dwNull = TRUE, !.dw = EmptyHash]
        ELSE s2


\* WM_widget_set_flag(widget, WM_WIDGET_HIDDEN, enable)
WM_widget_set_flag(st, widget, enable) ==
    [Touch(st, widget) EXCEPT !.w[widget].hidden = enable]

(* ------------------------------ highlight ------------------------------ *)

\* wm_widgetmap_set_highlighted_widget(wmap, C, widget, part), C not NULL.
wm_widgetmap_set_highlighted_widget(st, widget, part) ==
    LET s0 == IF widget # NULL THEN Touch(st, widget) ELSE st
    IN  IF widget # s0.hl \/ (widget # NULL /\ part # s0.w[widget].part)
        THEN LET s1 == IF s0.hl # NULL
                       THEN [Touch(s0, s0.hl) EXCEPT !.w[s0.hl].highlight = FALSE,
                                                     !.w[s0.hl].part = 0]
                       ELSE s0
                 s2 == [s1 EXCEPT !.hl = widget]
                 s3 == IF widget # NULL
                       THEN [s2 EXCEPT !.w[widget].highlight = TRUE,
                                       !.w[widget].part = part,
                                       !.cursor = IF s2.w[widget].kind \in CursorKinds
                                                  THEN "widget" ELSE @]
                       ELSE [s2 EXCEPT !.cursor = "CURSOR_STD"]
             IN  [s3 EXCEPT !.tagged = TRUE]
        ELSE s0

(* ------------------------------ activation ----------------------------- *)

\* WM_operator_name_call_ptr(C, ot, WM_OP_INVOKE_DEFAULT, &widget->opptr):
\* the operator dispatcher.  running: the operator stays running as a modal
\* handler; otherwise the dispatcher leaves the active slot of the map empty.
WM_operator_name_call_ptr(st, running) ==
    IF running THEN [st EXCEPT !.oph = "running"]
    ELSE [st EXCEPT !.act = NULL]

\* The cleanup both the failure branch and the deactivation branch do.
ActiveRollback(st, widget) ==
    [Touch(st, widget) EXCEPT !.w[widget].active = FALSE,
                              !.w[widget].idata = FALSE]

\* wm_widgetmap_set_active_widget without lines 1190-1197: the failure
\* branch leaves the widget as the invoke left it.
SetActiveWidgetNoRollback(st, widget, found, running) ==
    IF widget # NULL
    THEN LET s0 == Touch(st, widget)
             k == s0.w[widget].kind
             invoked == IF k \in InvokeHandlerKinds
                        THEN [s0 EXCEPT !.w[widget].active = TRUE,
                                        !.w[widget].idata = TRUE,
                                        !.log = Append(@, "invoke")]
                        ELSE s0
         IN  IF k \in OpnameKinds
             THEN IF found
                  THEN WM_operator_name_call_ptr([invoked EXCEPT !.act = widget], running)
                  ELSE [s0 EXCEPT !.act = NULL]
             ELSE IF k \in InvokeHandlerKinds
                  THEN [invoked EXCEPT !.act = widget]
                  ELSE s0
    ELSE LET s1 == IF st.act # NULL THEN ActiveRollback(st, st.act) ELSE st
         IN  [s1 EXCEPT !.act = NULL, !.tagged = TRUE, !.mousemove = TRUE,
                        !.log = Append(@, "deactivate")]

\* wm_widgetmap_set_active_widget(wmap, C, event, widget).  found: the
\* operator type of widget->opname exists; running: see the dispatcher.
wm_widgetmap_set_active_widget(st, widget, found, running) ==
    IF widget # NULL
    THEN LET s0 == Touch(st, widget)
             k == s0.w[widget].kind
             invoked == IF k \in InvokeHandlerKinds
                        THEN [s0 EXCEPT !.w[widget].active = TRUE,
                                        !.w[widget].idata = TRUE,
                                        !.log = Append(@, "invoke")]
                        ELSE s0
         IN  IF k \in OpnameKinds
             THEN IF found
                  THEN LET s1 == [invoked EXCEPT !.act = widget]
                           s2 == WM_operator_name_call_ptr(s1, running)
                       IN  IF s2.act = NULL THEN ActiveRollback(s2, widget) ELSE s2
                  ELSE [s0 EXCEPT !.act = NULL]
             ELSE IF k \in InvokeHandlerKinds
                  THEN [invoked EXCEPT !.act = widget]
                  ELSE s0
    ELSE LET s1 == IF st.act # NULL THEN ActiveRollback(st, st.act) ELSE st
         IN  [s1 EXCEPT !.act = NULL, !.tagged = TRUE, !.mousemove = TRUE,
                        !.log = Append(@, "deactivate")]

(* ------------------------------ selection ------------------------------ *)

RECURSIVE DeselectAllLoop(_, _)
DeselectAllLoop(st, i) ==
    IF i > st.tot THEN st
    ELSE DeselectAllLoop([Touch(st, st.sel[i]) EXCEPT !.w[st.sel[i]].selected = FALSE],
                         i + 1)

\* wm_widgetmap_deselect_all(wmap, sel); the record holds the return value.
wm_widgetmap_deselect_all(st) ==
    IF st.tot = 0 THEN [st |-> st, changed |-> FALSE]
    ELSE [st |-> [DeselectAllLoop(st, 1) EXCEPT !.sel = <<>>, !.tot = 0],
          changed |-> TRUE]

\* wm_widgetmap_widget_hash_new(C, wmap, widget_selectable_poll, NULL, true):
\* the values of the hash (idnames are the keys; a second widget of the same
\* idname does not occur: idnames are unique in a group and carry its prefix).
SelectableHash(st) ==
    {p \in 1..Len(st.w) :
        /\ st.w[p].kind \in SelectableKinds
        /\ \E i \in 1..Len(st.groups) :
              LET g == st.groups[i]
              IN  st.poll[g] /\ \E j \in 1..Len(st.gl[g]) : st.gl[g][j] = p}

RECURSIVE SelectAllLoop(_, _, _)
\* Lines 642-654, for the widgets in hash iteration order.
SelectAllLoop(r, order, i) ==
    IF i > Len(order) THEN r
    ELSE LET p == order[i]
             st == r.st
         IN  SelectAllLoop(
                 [st |-> [st EXCEPT !.w[p].selected = TRUE,
                                    !.sel[i] = p,
                                    !.log = Append(@, "select")],
                  changed |-> r.changed \/ ~st.w[p].selected],
                 order, i + 1)

\* wm_widgetmap_select_all_intern(C, wmap, sel, action).  order: the hash
\* iteration order.  With an empty hash, (*sel)[0] reads past the block.
wm_widgetmap_select_all_intern(st, order) ==
    LET n == Len(order)
        s0 == [st EXCEPT !.tot = n,
                         !.sel = AsSeq([i \in 1..n |-> IF i <= Len(st.sel) THEN st.sel[i]
                                                       ELSE NULL], n)]
        r == SelectAllLoop([st |-> s0, changed |-> FALSE], order, 1)
    IN  [st |-> IF n = 0 THEN [r.st EXCEPT !.ub = TRUE]
                ELSE wm_widgetmap_set_highlighted_widget(
                         r.st, r.st.sel[1], r.st.w[r.st.sel[1]].part),
         changed |-> r.changed]

\* WM_widgetmap_select_all(C, wmap, action)
WM_widgetmap_select_all(st, action, order) ==
    LET r == IF action = "SEL_SELECT"
             THEN wm_widgetmap_select_all_intern(st, order)
             ELSE wm_widgetmap_deselect_all(st)
    IN  [r EXCEPT !.st.mousemove = @ \/ r.changed]

\* widget_compare: equality of the idnames.
widget_compare(st, a, b) == st.w[a].idname = st.w[b].idname

\* Lines 703-710: index of the first entry of the same idname, 0 if none.
DeselectIndex(st, widget) ==
    LET idx == {i \in 1..st.tot : widget_compare(st, st.sel[i], widget)}
    IN  IF idx = {} THEN 0 ELSE CHOOSE i \in idx : \A j \in idx : i <= j

\* wm_widget_deselect(C, wmap, widget).  The array holds the entries below
\* tot_selected: the slot the realloc leaves behind them is never read.
wm_widget_deselect(st, widget) ==
    LET i == DeselectIndex(st, widget)
        last_read == IF i = 0 THEN st.tot ELSE i
        s0 == [st EXCEPT !.ub = @ \/ \E j \in 1..last_read : IsFreed(st, st.sel[j])]
        shifted == IF i = 0 THEN s0.sel
                   ELSE [j \in 1..s0.tot |->
                            IF j >= i /\ j < s0.tot THEN s0.sel[j + 1] ELSE s0.sel[j]]
        s1 == IF s0.tot <= 1
              THEN [s0 EXCEPT !.sel = <<>>, !.tot = 0]
              ELSE [s0 EXCEPT !.sel = AsSeq(shifted, s0.tot - 1), !.tot = @ - 1]
    IN  [Touch(s1, widget) EXCEPT !.w[widget].selected = FALSE, !.tagged = TRUE]

\* wm_widget_select(C, wmap, widget)
wm_widget_select(st, widget) ==
    IF widget = NULL THEN st
    ELSE LET s0 == Touch(st, widget)
         IN  IF s0.w[widget].selected THEN s0
             ELSE LET s1 == [s0 EXCEPT !.tot = @ + 1,
                                       !.sel = Append(s0.sel, widget),
                                       !.w[widget].selected = TRUE,
                                       !.log = IF s0.w[widget].kind \in SelectableKinds
                                               THEN Append(@, "select") ELSE @]
                      s2 == wm_widgetmap_set_highlighted_widget(
                                s1, widget, s1.w[widget].part)
                  IN  [s2 EXCEPT !.tagged = TRUE]

\* widget_select_invoke(C, op, event): the select operator.
widget_select_invoke(st, extend, deselect, toggle) ==
    LET highlighted == st.hl
        s1 == IF ~extend /\ ~deselect /\ ~toggle
              THEN wm_widgetmap_deselect_all(st).st
              ELSE st
    IN  IF highlighted # NULL
        THEN LET s2 == Touch(s1, highlighted)
                 is_selected == s2.w[highlighted].selected
                 desel == IF toggle THEN is_selected ELSE deselect
             IN  [st |-> IF desel
                         THEN IF is_selected THEN wm_widget_deselect(s2, highlighted)
                              ELSE s2
                         ELSE wm_widget_select(s2, highlighted),
                  ret |-> "FINISHED"]
        ELSE [st |-> [s1 EXCEPT !.ub = TRUE], ret |-> "CANCELLED_PASS_THROUGH"]

(* ------------------------------- tweak --------------------------------- *)

NoTweak == [running |-> FALSE, active |-> NULL, init_event |-> "none",
            precise |-> FALSE]

\* widget_tweak_finish(C, op)
widget_tweak_finish(st) ==
    [wm_widgetmap_set_active_widget(st, NULL, FALSE, FALSE)
        EXCEPT !.tw = NoTweak, !.log = Append(@, "tweak_free")]

\* widget_tweak_cancel(C, op)
widget_tweak_cancel(st) ==
    LET a == st.tw.active
        s1 == Touch(st, a)
    IN  widget_tweak_finish(IF s1.w[a].kind \in CancelKinds
                            THEN [s1 EXCEPT !.log = Append(@, "cancel")]
                            ELSE s1)

\* widget_tweak_modal(C, op, event)
widget_tweak_modal(st, event) ==
    LET widget == st.tw.active
    IN  IF widget = NULL
        THEN [st |-> [st EXCEPT !.ub = TRUE], ret |-> "CANCELLED_PASS_THROUGH"]
        ELSE IF event.type = st.tw.init_event /\ event.val = "KM_RELEASE"
        THEN [st |-> widget_tweak_finish(st), ret |-> "FINISHED"]
        ELSE IF event.type = "EVT_MODAL_MAP" /\ event.val = "TWEAK_MODAL_CANCEL"
        THEN [st |-> widget_tweak_cancel(st), ret |-> "CANCELLED"]
        ELSE IF event.type = "EVT_MODAL_MAP" /\ event.val = "TWEAK_MODAL_CONFIRM"
        THEN [st |-> widget_tweak_finish(st), ret |-> "FINISHED"]
        ELSE LET s1 == IF event.type = "EVT_MODAL_MAP"
                          /\ event.val = "TWEAK_MODAL_PRECISION_ON"
                       THEN [st EXCEPT !.tw.precise = TRUE]
                       ELSE IF event.type = "EVT_MODAL_MAP"
                               /\ event.val = "TWEAK_MODAL_PRECISION_OFF"
                       THEN [st EXCEPT !.tw.precise = FALSE]
                       ELSE st
                 s2 == Touch(s1, widget)
             IN  [st |-> IF s2.w[widget].kind \in HandlerKinds
                         THEN [s2 EXCEPT !.log = Append(@,
                                   IF s2.tw.precise THEN "handler_precise" ELSE "handler")]
                         ELSE s2,
                  ret |-> "PASS_THROUGH"]

\* widget_tweak_invoke(C, op, event).  found, modal: WM_operatortype_find
\* finds the operator type of widget->opname, and it has a modal callback;
\* running: see the dispatcher.
widget_tweak_invoke(st, event, found, modal, running) ==
    LET widget == st.hl
    IN  IF widget = NULL
        THEN [st |-> [st EXCEPT !.ub = TRUE], ret |-> "CANCELLED_PASS_THROUGH"]
        ELSE LET s1 == wm_widgetmap_set_active_widget(st, widget, found, running)
                 bound == s1.w[widget].kind \in OpnameKinds
                 s2 == IF bound /\ ~found THEN [s1 EXCEPT !.ub = TRUE] ELSE s1
             IN  IF bound /\ modal
                 THEN [st |-> s2, ret |-> "FINISHED"]
                 ELSE [st |-> [s2 EXCEPT !.tw = [running |-> TRUE,
                                                 active |-> s2.hl,
                                                 init_event |-> event.type,
                                                 precise |-> FALSE]],
                       ret |-> "RUNNING_MODAL"]

\* wm_widget_handler_modal_update(C, event, handler); op: handler->op is set
\* (the operator is still running).
wm_widget_handler_modal_update(st, op) ==
    LET widget == st.act
    IN  IF widget = NULL THEN st
        ELSE IF op
        THEN LET s1 == Touch(st, widget)
             IN  IF s1.w[widget].kind \in HandlerKinds \cap OpnameKinds
                 THEN [s1 EXCEPT !.log = Append(@, "handler")]
                 ELSE s1
        ELSE wm_widgetmap_set_active_widget(st, NULL, FALSE, FALSE)

(* --------------------------- group unregister -------------------------- *)

RECURSIVE GroupFreeLoop(_, _, _)
\* Lines 1327-1337
GroupFreeLoop(st, g, ws) ==
    IF ws = <<>> THEN st
    ELSE LET p == Head(ws)
             s1 == IF st.w[p].highlight
                   THEN wm_widgetmap_set_highlighted_widget(st, NULL, 0)
                   ELSE st
             s2 == IF s1.w[p].active
                   THEN wm_widgetmap_set_active_widget(s1, NULL, FALSE, FALSE)
                   ELSE s1
         IN  GroupFreeLoop(wm_widget_delete(s2, g, p), g, Tail(ws))

\* wm_widgetgroup_free(C, wmap, wgroup)
wm_widgetgroup_free(st, g) ==
    [GroupFreeLoop(st, g, st.gl[g]) EXCEPT !.groups = RemoveFirst(@, g)]

\* WM_widgetgrouptype_unregister(C, bmain, wgrouptype), for the modelled map.
WM_widgetgrouptype_unregister(st, g) ==
    [wm_widgetgroup_free(st, g) EXCEPT !.tagged = TRUE]

(* ------------------------------- picking ------------------------------- *)

RECURSIVE Flatten(_, _)
\* The widgets of the groups gs whose poll holds, in list order.
Flatten(st, gs) ==
    IF gs = <<>> THEN <<>>
    ELSE (IF st.poll[Head(gs)] THEN st.gl[Head(gs)] ELSE <<>>) \o Flatten(st, Tail(gs))

RECURSIVE FindInList(_, _, _, _)
\* Lines 1105-1110: the loop over the widgets of a group.  hit[p]: what the
\* intersect callback of widget p returns for the event; calls: the
\* intersect calls made so far.
FindInList(st, ws, hit, calls) ==
    IF ws = <<>> THEN [widget |-> NULL, part |-> 0, calls |-> calls, ub |-> FALSE]
    ELSE LET p == Head(ws)
         IN  IF st.w[p].kind \in IntersectKinds
             THEN IF hit[p] # 0
                  THEN [widget |-> p, part |-> hit[p], calls |-> calls + 1,
                        ub |-> FALSE]
                  ELSE FindInList(st, Tail(ws), hit, calls + 1)
             ELSE FindInList(st, Tail(ws), hit, calls)

RECURSIVE FindInGroups(_, _, _, _)
\* Lines 1103-1112: the loop over the groups of the map.
FindInGroups(st, gs, hit, calls) ==
    IF gs = <<>> THEN [widget |-> NULL, part |-> 0, calls |-> calls, ub |-> FALSE]
    ELSE IF st.poll[Head(gs)]
    THEN LET r == FindInList(st, st.gl[Head(gs)], hit, calls)
         IN  IF r.widget # NULL THEN r
             ELSE FindInGroups(st, Tail(gs), hit, r.calls)
    ELSE FindInGroups(st, Tail(gs), hit, calls)

\* wm_widget_find_highlighted without the poll test of its group loop.
FindHighlightedIgnoringPoll(st, hit) ==
    FindInGroups([st EXCEPT !.poll = [g \in DOMAIN st.poll |-> TRUE]],
                 st.groups, hit, 0)

\* wm_widget_find_highlighted(wmap, C, event, part)
wm_widget_find_highlighted(st, hit) == FindInGroups(st, st.groups, hit, 0)

RECURSIVE MinDepthLoopLastOnTies(_, _, _, _)
\* MinDepthLoop with dep <= mindep for dep < mindep.
MinDepthLoopLastOnTies(buffer, a, mindep, minval) ==
    IF a > Len(buffer) THEN minval
    ELSE LET dep == buffer[a].dep
             val == buffer[a].val
         IN  IF minval = -1 \/ dep <= mindep
             THEN MinDepthLoopLastOnTies(buffer, a + 1, dep, val)
             ELSE MinDepthLoopLastOnTies(buffer, a + 1, mindep, minval)

RECURSIVE MinDepthLoop(_, _, _, _)
\* Lines 1035-1043.  minval is a GLuint initialised to -1 and returned as an
\* int: it is kept here as the int it converts to (ids are below 2^31).
MinDepthLoop(buffer, a, mindep, minval) ==
    IF a > Len(buffer) THEN minval
    ELSE LET dep == buffer[a].dep
             val == buffer[a].val
         IN  IF minval = -1 \/ dep < mindep
             THEN MinDepthLoop(buffer, a + 1, dep, val)
             ELSE MinDepthLoop(buffer, a + 1, mindep, minval)

\* The id wm_widget_find_highlighted_3D_intern returns for the hit records
\* GPU_select_end left in the buffer (lines 1024-1048); -1: no hit.
wm_widget_find_highlighted_3D_intern(buffer) ==
    LET hits == Len(buffer)
    IN  IF hits = 1 THEN buffer[1].val
        ELSE IF hits > 1 THEN MinDepthLoop(buffer, 1, 0, -1)
        ELSE -1

Reverse(s) == AsSeq([i \in 1..Len(s) |-> s[Len(s) + 1 - i]], Len(s))

\* wm_prepare_visible_widgets_3D: BLI_addhead puts each widget in front.
wm_prepare_visible_widgets_3D(st) ==
    Reverse(SelectSeq(Flatten(st, st.groups),
                      LAMBDA p : st.w[p].kind \in Render3DKinds /\ ~st.w[p].hidden))

\* widget_find_active_3D_loop with a shift by 7 bits for the shift by 8.
SelectionBaseShift7(i) == (i - 1) * 128

\* widget_find_active_3D_loop: the selection base of the widget at position
\* i (from 1) of the list.
SelectionBase(i) == (i - 1) * 256

\* wm_widget_find_highlighted_3D taking the result of the second pass
\* whether it has a hit or not.
FindHighlighted3DFineAlways(st, coarse, fine) ==
    LET visible == wm_prepare_visible_widgets_3D(st)
        ret1 == wm_widget_find_highlighted_3D_intern(coarse)
        ret == wm_widget_find_highlighted_3D_intern(fine)
        link == (ret \div 256) + 1
    IN  IF ret1 = -1
        THEN [widget |-> NULL, part |-> 0, calls |-> Len(visible), ub |-> FALSE]
        ELSE IF link \in 1..Len(visible)
        THEN [widget |-> visible[link], part |-> ret % 256,
              calls |-> 2 * Len(visible), ub |-> FALSE]
        ELSE [widget |-> NULL, part |-> ret % 256,
              calls |-> 2 * Len(visible), ub |-> TRUE]

\* wm_widget_find_highlighted_3D(wmap, C, event, part).  coarse, fine: the
\* hit records of the 0.5 * hotspot and of the 0.2 * hotspot pass.
wm_widget_find_highlighted_3D(st, coarse, fine) ==
    LET visible == wm_prepare_visible_widgets_3D(st)
        ret1 == wm_widget_find_highlighted_3D_intern(coarse)
        retsec == wm_widget_find_highlighted_3D_intern(fine)
        ret == IF retsec # -1 THEN retsec ELSE ret1
        link == (ret \div 256) + 1
    IN  IF ret1 = -1
        THEN [widget |-> NULL, part |-> 0, calls |-> Len(visible), ub |-> FALSE]
        ELSE IF link \in 1..Len(visible)
        THEN [widget |-> visible[link], part |-> ret % 256,
              calls |-> 2 * Len(visible), ub |-> FALSE]
        ELSE [widget |-> NULL, part |-> ret % 256,
              calls |-> 2 * Len(visible), ub |-> TRUE]

(* ------------------------- storing a call's result --------------------- *)

SeqRange(s) == {s[i] : i \in 1..Len(s)}

RECURSIVE StrLess(_, _)
\* Lexicographic order of the strings.
StrLess(a, b) ==
    IF b = <<>> THEN FALSE
    ELSE IF a = <<>> THEN TRUE
    ELSE \/ Head(a) < Head(b)
         \/ Head(a) = Head(b) /\ StrLess(Tail(a), Tail(b))

RECURSIVE SetToSeq(_)
\* The idnames of a set in lexicographic order.
SetToSeq(S) ==
    IF S = {} THEN <<>>
    ELSE LET m == CHOOSE x \in S : \A y \in S \ {x} : StrLess(x, y)
         IN  <<m>> \o SetToSeq(S \ {m})

RECURSIVE Uniq(_, _)
\* The sequence without NULL and without the later copies of an element.
Uniq(s, seen) ==
    IF s = <<>> THEN <<>>
    ELSE IF Head(s) = NULL \/ Head(s) \in seen THEN Uniq(Tail(s), seen)
    ELSE <<Head(s)>> \o Uniq(Tail(s), seen \cup {Head(s)})

RECURSIVE FlatLists(_, _)
FlatLists(st, g) ==
    IF g \notin DOMAIN st.gl THEN <<>> ELSE st.gl[g] \o FlatLists(st, g + 1)

\* The widgets some pointer of the program still refers to, in the order
\* the pointers are found: lists, slots, selected array, cache.
Refs(st) ==
    LET names == SetToSeq(DOMAIN st.dw)
    IN  Uniq(FlatLists(st, 1) \o <<st.hl, st.act, st.tw.active>> \o st.sel
               \o AsSeq([i \in 1..Len(names) |-> st.dw[names[i]]], Len(names)),
             {})

\* A freed block: what it holds is not defined.
FreedWidget ==
    [kind |-> 0, wgroup |-> 0, idname |-> <<>>, hidden |-> FALSE,
     highlight |-> FALSE, selected |-> FALSE, active |-> FALSE, part |-> 0,
     idata |-> FALSE, frees |-> 1, dfrees |-> 1]

\* Addresses are opaque (the code only compares them for equality): the
\* heap is stored up to a renaming of the addresses, without the blocks no
\* pointer refers to (freed or leaked, they can never be reached again).
Compact(st) ==
    LET R == Refs(st)
        n == Len(R)
        rk == [p \in 0..Len(st.w) |->
                 IF \E i \in 1..n : R[i] = p THEN CHOOSE i \in 1..n : R[i] = p ELSE NULL]
    IN  IF R = AsSeq([i \in 1..Len(st.w) |-> i], Len(st.w))
             /\ \A i \in 1..n : ~IsFreed(st, R[i])
        THEN st
        ELSE [st EXCEPT
           !.w = AsSeq([i \in 1..n |-> IF IsFreed(st, R[i]) THEN FreedWidget
                                       ELSE st.w[R[i]]], n),
           !.gl = [g \in DOMAIN st.gl |->
                     AsSeq([i \in 1..Len(st.gl[g]) |-> rk[st.gl[g][i]]],
                           Len(st.gl[g]))],
           !.hl = rk[st.hl],
           !.act = rk[st.act],
           !.tw.active = rk[st.tw.active],
           !.sel = AsSeq([i \in 1..Len(st.sel) |-> rk[st.sel[i]]], Len(st.sel)),
           !.dw = [nm \in DOMAIN st.dw |-> rk[st.dw[nm]]]]

GroupSet == SeqRange(InitGroups)

InitCtx == [highlighted_widget |-> NULL, active_widget |-> NULL,
            selected_widgets |-> <<>>, tot_selected |-> 0]

\* Store the state a call returns.  After an invalid access (or a failed
\* assertion) nothing is defined any more: the behaviour ends in the state
\* crashed, which stands for every outcome.
Commit(ret) ==
    \E st \in {ret} :
       IF st.ub
       THEN /\ crashed' = TRUE
            /\ widgets' = <<>>
            /\ glist' = [g \in GroupSet |-> <<>>]
            /\ groups' = <<>>
            /\ poll' = [g \in GroupSet |-> FALSE]
            /\ ctx' = InitCtx
            /\ draw_widgets' = [null |-> TRUE, h |-> EmptyHash]
            /\ tweak' = NoTweak
            /\ ophandler' = "none"
       ELSE \E c \in {Compact(st)} :
                /\ crashed' = FALSE
                /\ widgets' = c.w
                /\ glist' = c.gl
                /\ groups' = c.groups
                /\ poll' = c.poll
                /\ ctx' = [highlighted_widget |-> c.hl, active_widget |-> c.act,
                           selected_widgets |-> c.sel, tot_selected |-> c.tot]
                /\ draw_widgets' = [null |-> c.dwNull, h |-> c.dw]
                /\ tweak' = c.tw
                /\ ophandler' = c.oph

(* ------------------------------- actions ------------------------------- *)

\* No call of wm_widget_find_highlighted_3D_intern is at its return: its
\* locals (the select buffer, the id it returns) do not exist.
NoPick == [buffer |-> <<>>, ret |-> -1]

Init ==
    /\ widgets = <<>>
    /\ glist = [g \in GroupSet |-> <<>>]
    /\ groups = InitGroups
    /\ poll \in {f \in [GroupSet -> BOOLEAN] : \A g \in GroupSet \ PollGroups : f[g]}
    /\ ctx = InitCtx
    /\ draw_widgets = [null |-> TRUE, h |-> EmptyHash]
    /\ tweak = NoTweak
    /\ ophandler = "none"
    /\ is_3d \in BOOLEAN
    /\ crashed = FALSE
    /\ pick3d = NoPick
    /\ type_idname = [g \in GroupSet |-> GroupIdname(g)]

\* The widgets in the lists of the groups of the map.
Listed(st) == UNION {SeqRange(st.gl[g]) : g \in SeqRange(st.groups)}

\* What the factories of the groups register in one pass, and the hidden
\* flags they give the widgets.
Factories ==
    {f \in [mk : [GroupSet -> UNION {GroupKinds(g) : g \in GroupSet}],
            hid : [Kinds -> BOOLEAN]] :
        /\ \A g \in GroupSet : f.mk[g] \in GroupKinds(g)
        /\ \A k \in Kinds \ HideableKinds : ~f.hid[k]}

\* The update passes the heap has room for.
UpdateInputs ==
    {f \in Factories :
        Len(widgets) + (IF ctx.active_widget = NULL
                        THEN AllocNeed(St, groups, f.mk) ELSE 0) <= MaxAlloc}

\* WM_widgetmap_widgets_update is called.
Update ==
    /\ ~crashed
    /\ \E f \in UpdateInputs : Commit(WM_widgetmap_widgets_update(St, f.mk, f.hid))
    /\ UNCHANGED <<is_3d, pick3d, type_idname>>

\* The region is redrawn (the draw handler of the region): the update pass,
\* the draw pass of the widgets outside the scene, and the draw pass of the
\* widgets in the scene, which frees draw_widgets.
Redraw ==
    /\ ~crashed
    /\ \E f \in UpdateInputs :
          Commit(WM_widgetmap_widgets_draw(
                     WM_widgetmap_widgets_draw(
                         WM_widgetmap_widgets_update(St, f.mk, f.hid), FALSE), TRUE))
    /\ UNCHANGED <<is_3d, pick3d, type_idname>>

\* A draw call of the region.
Draw ==
    /\ ~crashed
    /\ \E free_drawwidgets \in BOOLEAN :
          Commit(WM_widgetmap_widgets_draw(St, free_drawwidgets))
    /\ UNCHANGED <<is_3d, pick3d, type_idname>>

\* The context changes and with it the value of a group type's poll.
PollChange ==
    /\ ~crashed
    /\ \E g \in PollGroups : poll' = [poll EXCEPT ![g] = ~@]
    /\ UNCHANGED <<widgets, glist, groups, ctx, draw_widgets, tweak, ophandler,
                   is_3d, crashed, pick3d, type_idname>>

MaxDepth == 1

\* Hit records the id render of the widget at list position i can leave.
HitRecords(i) == [dep : 0..MaxDepth, val : {SelectionBase(i) + p : p \in Parts}]

\* Select buffers of a pick pass with the cursor over at most two widgets
\* of a list of n, in render order.
SceneBuffers(n) ==
    {<<>>}
      \cup {<<r>> : r \in UNION {HitRecords(i) : i \in 1..n}}
      \cup UNION {{<<r1, r2>> : r1 \in HitRecords(ij[1]), r2 \in HitRecords(ij[2])} :
                    ij \in {x \in (1..n) \X (1..n) : x[1] < x[2]}}

\* The narrower pass hits a part of what the wider pass hit.
FineBuffers(b) == {<<>>, b} \cup {<<b[i]>> : i \in 1..Len(b)}

\* The results a pick query can have in the current state, for every
\* position of the cursor.
PickResults ==
    IF is_3d
    THEN LET n == Len(wm_prepare_visible_widgets_3D(St))
         IN  UNION {{wm_widget_find_highlighted_3D(St, c, f) : f \in FineBuffers(c)} :
                      c \in SceneBuffers(n)}
    ELSE {wm_widget_find_highlighted(St, hit) : hit \in [1..Len(widgets) -> Parts]}

\* Pointer motion over the region while no widget is active: the pick runs
\* and its result becomes the highlighted widget.
MouseMove ==
    /\ ~crashed
    /\ ctx.active_widget = NULL
    /\ \E r \in PickResults :
          Commit(wm_widgetmap_set_highlighted_widget(
                     [St EXCEPT !.ub = r.ub], r.widget, r.part))
    /\ UNCHANGED <<is_3d, pick3d, type_idname>>

\* A pick query made while a widget is active: it changes nothing.
PickQuery ==
    /\ ~crashed
    /\ ctx.active_widget # NULL
    /\ \E r \in PickResults : Commit([St EXCEPT !.ub = r.ub])
    /\ UNCHANGED <<is_3d, pick3d, type_idname>>

\* Longest selected array the behaviours build.
MaxSel == 2

\* WIDGETGROUP_OT_widget_select is invoked (SELECTMOUSE press).
SelectInvoke ==
    /\ ~crashed
    /\ ctx.active_widget = NULL
    /\ ctx.tot_selected < MaxSel
    /\ \E extend, deselect, toggle \in BOOLEAN :
          Commit(widget_select_invoke(St, extend, deselect, toggle).st)
    /\ UNCHANGED <<is_3d, pick3d, type_idname>>

Perms(S) ==
    {f \in [1..Cardinality(S) -> S] : \A i, j \in 1..Cardinality(S) : f[i] = f[j] => i = j}

\* The calls of WM_widgetmap_select_all: the action and, for SEL_SELECT,
\* the iteration order of the hash.
SelectAllInputs ==
    [action : {"SEL_SELECT"}, order : Perms(SelectableHash(St))]
       \cup [action : {"SEL_DESELECT"}, order : {<<>>}]

\* WM_widgetmap_select_all(C, wmap, action)
SelectAll ==
    /\ ~crashed
    /\ \E i \in SelectAllInputs :
          Commit(WM_widgetmap_select_all(St, i.action, i.order).st)
    /\ UNCHANGED <<is_3d, pick3d, type_idname>>

\* The widgets wm_widget_select can be called on and then deselected.
RoundTripInputs ==
    IF ctx.active_widget = NULL /\ ctx.tot_selected < MaxSel
    THEN {p \in Listed(St) : ~widgets[p].selected}
    ELSE {}

\* wm_widget_select(C, wmap, widget) and then wm_widget_deselect(C, wmap,
\* widget), on a widget of the map that is not selected.
SelectDeselect ==
    /\ ~crashed
    /\ \E p \in RoundTripInputs :
          Commit(wm_widget_deselect(wm_widget_select(St, p), p))
    /\ UNCHANGED <<is_3d, pick3d, type_idname>>

\* What a press can meet: found, modal: WM_operatortype_find finds the
\* operator type of the widget's opname, and it has a modal callback (the
\* registered operator types all have one); running: the operator stays
\* running after its invoke.
PressInputs ==
    IF ctx.highlighted_widget = NULL THEN {}
    ELSE {i \in [found : BOOLEAN, modal : BOOLEAN, running : BOOLEAN] :
            /\ i.running => i.found
            /\ i.modal = i.found
            /\ widgets[ctx.highlighted_widget].kind \notin OpnameKinds => ~i.found}

PressEvent == [type |-> "ACTIONMOUSE", val |-> "KM_PRESS"]

\* WIDGETGROUP_OT_widget_tweak is invoked (ACTIONMOUSE press) on the
\* highlighted widget while no widget is active.
Press ==
    /\ ~crashed
    /\ ctx.active_widget = NULL
    /\ ~tweak.running
    /\ ophandler = "none"
    /\ \E i \in PressInputs :
          Commit(widget_tweak_invoke(St, PressEvent, i.found, i.modal, i.running).st)
    /\ UNCHANGED <<is_3d, pick3d, type_idname>>

TweakEvents ==
    [type : {"ACTIONMOUSE", "SELECTMOUSE"}, val : {"KM_RELEASE"}]
      \cup [type : {"EVT_MODAL_MAP"},
            val : {"TWEAK_MODAL_CANCEL", "TWEAK_MODAL_CONFIRM",
                   "TWEAK_MODAL_PRECISION_ON", "TWEAK_MODAL_PRECISION_OFF"}]
      \cup [type : {"MOUSEMOVE"}, val : {"KM_NOTHING"}]

\* An event reaches the modal handler of the running tweak.
TweakEvent ==
    /\ ~crashed
    /\ tweak.running
    /\ \E event \in TweakEvents : Commit(widget_tweak_modal(St, event).st)
    /\ UNCHANGED <<is_3d, pick3d, type_idname>>

\* The window manager cancels the running tweak (ot->cancel).
TweakCancel ==
    /\ ~crashed
    /\ tweak.running
    /\ Commit(widget_tweak_cancel(St))
    /\ UNCHANGED <<is_3d, pick3d, type_idname>>

\* An event reaches the modal handler of the operator bound to the widget
\* while the operator runs.
OpUpdate ==
    /\ ~crashed
    /\ ophandler = "running"
    /\ Commit(wm_widget_handler_modal_update(St, TRUE))
    /\ UNCHANGED <<is_3d, pick3d, type_idname>>

\* The operator bound to the widget ends: its handler runs the modal update
\* a last time, with handler->op cleared, and is removed.
OpEnd ==
    /\ ~crashed
    /\ ophandler = "running"
    /\ Commit([wm_widget_handler_modal_update(St, FALSE) EXCEPT !.oph = "none"])
    /\ UNCHANGED <<is_3d, pick3d, type_idname>>

\* WM_widgetgrouptype_unregister: a group type is unregistered.
Unregister ==
    /\ ~crashed
    /\ \E g \in SeqRange(groups) : Commit(WM_widgetgrouptype_unregister(St, g))
    /\ UNCHANGED <<is_3d, pick3d, type_idname>>

Next ==
    \/ Redraw
    \/ PollChange
    \/ MouseMove
    \/ PickQuery
    \/ SelectInvoke
    \/ SelectAll
    \/ SelectDeselect
    \/ Press
    \/ TweakEvent
    \/ TweakCancel
    \/ OpUpdate
    \/ OpEnd
    \/ Unregister

Spec == Init /\ [][Next]_vars

(* ------------------- the cache under the bare interface ---------------- *)

\* WM_widget_set_flag(widget, WM_WIDGET_HIDDEN, enable) on a widget of a
\* group, changing the flag.
SetHidden ==
    /\ ~crashed
    /\ \E p \in Listed(St) :
          /\ widgets[p].kind \in HideableKinds
          /\ Commit(WM_widget_set_flag(St, p, ~widgets[p].hidden))
    /\ UNCHANGED <<is_3d, pick3d, type_idname>>

\* The update pass and the draw pass called in any order, with hidden-flag
\* and poll changes between them.
NextCache ==
    \/ Update
    \/ Draw
    \/ PollChange
    \/ SetHidden

SpecCache == Init /\ [][NextCache]_vars

(* ----------------------- the 3D pick resolution ------------------------ *)

\* Hit records in the buffer of one pick pass (the buffer has room for 16).
MaxHits == 3

\* Depths of the hit records range over 0..MaxPickDepth.
MaxPickDepth == 2

\* Hit records of a pass over two widgets: depth and id (selection base of
\* the widget plus the part).
PickRecords ==
    [dep : 0..MaxPickDepth, val : {SelectionBase(i) + p : i \in 1..2, p \in Parts}]

PickBuffers == UNION {[1..n -> PickRecords] : n \in 0..MaxHits}

\* wm_widget_find_highlighted_3D_intern returns, GPU_select_end having left
\* the hit records b in the buffer.
PickPass ==
    /\ pick3d = NoPick
    /\ \E b \in PickBuffers :
          pick3d' = [buffer |-> b, ret |-> wm_widget_find_highlighted_3D_intern(b)]
    /\ UNCHANGED <<widgets, glist, groups, poll, ctx, draw_widgets, tweak, ophandler,
                   is_3d, crashed, type_idname>>

\* The caller has taken the id: the locals are gone.
PickReturn ==
    /\ pick3d # NoPick
    /\ pick3d' = NoPick
    /\ UNCHANGED <<widgets, glist, groups, poll, ctx, draw_widgets, tweak, ophandler,
                   is_3d, crashed, type_idname>>

InitPick ==
    /\ Init
    /\ is_3d
    /\ \A g \in GroupSet : poll[g]

NextPick ==
    \/ PickPass
    \/ PickReturn

SpecPick == InitPick /\ [][NextPick]_vars

(* -------------------- highlight and update passes ---------------------- *)

\* Update passes, draw passes and pointer motion (which sets the highlighted
\* widget) in any order, with poll changes between them.
NextHighlight ==
    \/ Update
    \/ Draw
    \/ MouseMove
    \/ PollChange

SpecHighlight == Init /\ [][NextHighlight]_vars

(* ------------------------ several maps of a region --------------------- *)

\* The maps of a region that holds two maps: map m has the one group m.
\* Neither map has a highlighted, selected or active widget, so the one
\* context of the model stands for the context of both.
Maps == {1, 2}

\* The state as a call on map m sees it: wmap->widgetgroups of that map, and
\* the static draw_widgets all maps share.
MapSt(st, m) == [st EXCEPT !.groups = <<m>>]

\* WM_widgetmap_widgets_update(C, wmap) on one of the maps.
UpdateMap ==
    /\ ~crashed
    /\ \E m \in Maps, f \in UpdateInputs :
          Commit([WM_widgetmap_widgets_update(MapSt(St, m), f.mk, f.hid)
                     EXCEPT !.groups = groups])
    /\ UNCHANGED <<is_3d, pick3d, type_idname>>

\* WM_widgetmap_widgets_draw(C, wmap, in_scene, free_drawwidgets) on one of
\* the maps.
DrawMap ==
    /\ ~crashed
    /\ \E m \in Maps, free_drawwidgets \in BOOLEAN :
          Commit([WM_widgetmap_widgets_draw(MapSt(St, m), free_drawwidgets)
                     EXCEPT !.groups = groups])
    /\ UNCHANGED <<is_3d, pick3d, type_idname>>

NextMaps ==
    \/ UpdateMap
    \/ DrawMap
    \/ PollChange
    \/ SetHidden

SpecMaps == Init /\ [][NextMaps]_vars

(* ----------------------- registration of widgets ----------------------- *)

\* Widgets registered in the map at once.
MaxReg == 3

\* Idnames of group types: none, "a" and "a_a".
TypeIdnames == {<<>>, <<97>>, <<97, CH_UNDERSCORE, 97>>}

\* Names passed to wm_widget_register: "", "a" and "a_a".
RegNames == {<<>>, <<97>>, <<97, CH_UNDERSCORE, 97>>}

\* A 2D map of two groups whose types have different idnames, before any
\* widget is registered.
InitRegister ==
    /\ widgets = <<>>
    /\ glist = [g \in GroupSet |-> <<>>]
    /\ groups = InitGroups
    /\ poll = [g \in GroupSet |-> TRUE]
    /\ ctx = InitCtx
    /\ draw_widgets = [null |-> TRUE, h |-> EmptyHash]
    /\ tweak = NoTweak
    /\ ophandler = "none"
    /\ is_3d = FALSE
    /\ crashed = FALSE
    /\ pick3d = NoPick
    /\ type_idname \in {f \in [GroupSet -> TypeIdnames] : f[1] # f[2]}

\* wm_widget_register(wgroup, widget, name) on a new widget (of kind 1: the
\* callbacks of a widget play no part in its naming).
Register ==
    /\ ~crashed
    /\ Len(widgets) < MaxReg
    /\ \E g \in GroupSet, name \in RegNames, hid \in BOOLEAN :
          Commit(wm_widget_register(St, g, 1, name, hid))
    /\ UNCHANGED <<is_3d, pick3d, type_idname>>

NextRegister == Register

SpecRegister == InitRegister /\ [][NextRegister]_vars

(* -------------------------------- claims ------------------------------- *)

\* The cache entries of a state a call returns that name a live widget which
\* is hidden or belongs to a group whose poll fails.
BadCacheEntries(s) ==
    {n \in DOMAIN s.dw :
        /\ ~IsFreed(s, s.dw[n])
        /\ \/ s.w[s.dw[n]].hidden
           \/ ~s.poll[s.w[s.dw[n]].wgroup]}

\* C1: after every update pass, whatever updates, draws, hidden-flag changes
\* and poll changes came before it, every widget in draw_widgets is
\* unhidden and belongs to a group whose poll holds.
C1_CacheOnlyVisible ==
    \A f \in UpdateInputs :
       LET s == WM_widgetmap_widgets_update(St, f.mk, f.hid)
       IN  ~s.ub => BadCacheEntries(s) = {}

\* The widgets an update pass created under a name and left unhidden in the
\* list of a group (the heap grows at its end).
NewInstances(s, name) ==
    {p \in Listed(s) : p > Len(widgets) /\ s.w[p].idname = name /\ ~s.w[p].hidden}

\* C2: when a widget is highlighted (slot and flag) and no widget is active,
\* an update pass that creates an unhidden widget of the same name leaves
\* the highlighted slot on the new widget, with the highlighted flag and
\* the part of the old one, also when the old one is selected.
C2_HighlightContinuity ==
    LET old == ctx.highlighted_widget
    IN  (/\ ~crashed
         /\ ctx.active_widget = NULL
         /\ old # NULL
         /\ ~IsFreed(St, old)
         /\ widgets[old].highlight)
        => \A f \in UpdateInputs :
              LET s == WM_widgetmap_widgets_update(St, f.mk, f.hid)
              IN  ~s.ub =>
                    \A p \in NewInstances(s, widgets[old].idname) :
                       /\ s.hl = p
                       /\ s.w[p].highlight
                       /\ s.w[p].part = widgets[old].part

\* The widgets the update pass of the current state unlinks and keeps
\* (lines 253-260): the selected and the highlighted widgets in the lists of
\* the groups it regenerates.
Preserved ==
    IF ctx.active_widget # NULL THEN {}
    ELSE {p \in Listed(St) :
            /\ poll[widgets[p].wgroup]
            /\ widgets[p].selected \/ widgets[p].highlight}

\* C3: a widget an update pass unlinks and keeps because it is selected or
\* highlighted has been freed exactly once when the pass returns.
C3_PreservedFreedOnce ==
    ~crashed =>
       \A f \in UpdateInputs :
          LET s == WM_widgetmap_widgets_update(St, f.mk, f.hid)
          IN  ~s.ub => \A p \in Preserved : s.w[p].frees = 1

\* Position of the first of the records of least depth in a buffer.
FirstNearest(b) ==
    CHOOSE i \in 1..Len(b) :
       /\ \A j \in 1..Len(b) : b[i].dep <= b[j].dep
       /\ \A j \in 1..(i - 1) : b[j].dep > b[i].dep

C5_PickWhileActive ==
    (~crashed /\ ctx.active_widget # NULL)
       => \A r \in PickResults : r.widget = ctx.active_widget /\ r.calls = 0

\* C6: wm_widget_select on a widget that is not selected, followed by
\* wm_widget_deselect on it, restores the selected flag of the widget, the
\* selected count and the members of the selected array.
C6_SelectDeselectRoundTrip ==
    ~crashed =>
       \A p \in RoundTripInputs :
          LET r == wm_widget_deselect(wm_widget_select(St, p), p)
          IN  ~r.ub =>
                /\ r.w[p].selected = widgets[p].selected
                /\ r.tot = ctx.tot_selected
                /\ SeqRange(r.sel) = SeqRange(ctx.selected_widgets)

\* The presses of the current state that find the bound operator of the
\* highlighted widget and invoke it without it staying running.
FailedPresses ==
    IF crashed \/ ctx.active_widget # NULL \/ tweak.running \/ ophandler # "none"
    THEN {}
    ELSE {i \in PressInputs :
            /\ widgets[ctx.highlighted_widget].kind \in OpnameKinds
            /\ i.found
            /\ ~i.running}

C8_FailedPressTagsRedraw ==
    \A i \in FailedPresses :
       widget_tweak_invoke(St, PressEvent, i.found, i.modal, i.running).st.tagged

\* C9: in every reachable state a widget is referenced by the selected
\* array if and only if its selected flag is set.
C9_SelectedFlagIffInArray ==
    ~crashed =>
       \A p \in 1..Len(widgets) :
          ~IsFreed(St, p) =>
             (widgets[p].selected <=> p \in SeqRange(ctx.selected_widgets))

\* C10: the highlighted slot, the active slot and the entries of the
\* selected array never refer to a freed widget.
C10_NoDanglingReferences ==
    ~crashed =>
       \A p \in {ctx.highlighted_widget, ctx.active_widget}
                   \cup SeqRange(ctx.selected_widgets) :
          p # NULL => ~IsFreed(St, p)

\* C11: an update pass that finds no widget of the name of a selected
\* widget in the cache removes it from the selected array and reduces the
\* selected count by one for each such widget.
C11_UnmatchedSelectionDropped ==
    (~crashed /\ ctx.active_widget = NULL) =>
       \A f \in UpdateInputs :
          LET s == WM_widgetmap_widgets_update(St, f.mk, f.hid)
              gone == {i \in 1..ctx.tot_selected :
                         /\ ~IsFreed(St, ctx.selected_widgets[i])
                         /\ BLI_ghash_lookup(s.dw,
                                widgets[ctx.selected_widgets[i]].idname) = NULL}
          IN  ~s.ub =>
                 /\ \A i \in gone : ctx.selected_widgets[i] \notin SeqRange(s.sel)
                 /\ s.tot = ctx.tot_selected - Cardinality(gone)

\* C12: an update pass that keeps a highlighted widget for reconciliation
\* and finds no widget of its name in the cache leaves the highlighted slot
\* empty, also when the widget is selected.
C12_UnmatchedHighlightDropped ==
    LET old == ctx.highlighted_widget
    IN  (~crashed /\ old \in Preserved /\ widgets[old].highlight)
        => \A f \in UpdateInputs :
              LET s == WM_widgetmap_widgets_update(St, f.mk, f.hid)
              IN  (~s.ub /\ BLI_ghash_lookup(s.dw, widgets[old].idname) = NULL)
                     => s.hl = NULL

\* The events that end a running tweak without cancelling it: the release
\* of what started it, and the confirm signal.
FinishEvents ==
    {e \in TweakEvents :
        \/ e.type = tweak.init_event /\ e.val = "KM_RELEASE"
        \/ e.type = "EVT_MODAL_MAP" /\ e.val = "TWEAK_MODAL_CONFIRM"}

\* What a cancel of the tweak on widget a must have done, in order.
CancelLog(a) ==
    (IF widgets[a].kind \in CancelKinds THEN <<"cancel">> ELSE <<>>)
       \o <<"deactivate", "tweak_free">>

\* C13: cancelling a running tweak, by the modal cancel signal or by the
\* operator's cancel, calls the cancel callback of the tweak's widget, if it
\* has one, once and before the active slot is cleared and the tweak data
\* freed; the matching release and the confirm signal never call it.
C13_CancelCallbackFirst ==
    (~crashed /\ tweak.running) =>
       LET byop == widget_tweak_cancel(St)
           bysignal == widget_tweak_modal(St, [type |-> "EVT_MODAL_MAP",
                                               val |-> "TWEAK_MODAL_CANCEL"]).st
       IN  /\ ~byop.ub /\ byop.log = CancelLog(tweak.active)
           /\ ~bysignal.ub /\ bysignal.log = CancelLog(tweak.active)
           /\ \A e \in FinishEvents :
                 widget_tweak_modal(St, e).st.log = <<"deactivate", "tweak_free">>

CancelSignal == [type |-> "EVT_MODAL_MAP", val |-> "TWEAK_MODAL_CANCEL"]

\* The states the teardowns of the interaction of the current state return:
\* the tweak ended by the matching release, by confirm or by a cancel, and
\* the deactivation after the bound operator stopped.
Teardowns ==
    (IF tweak.running
     THEN {widget_tweak_cancel(St)}
             \cup {widget_tweak_modal(St, e).st : e \in FinishEvents \cup {CancelSignal}}
     ELSE {})
       \cup (IF ophandler = "running"
             THEN {wm_widget_handler_modal_update(St, FALSE)}
             ELSE {})

\* C14: every teardown of an interaction with an active widget releases the
\* interaction data of the widget, clears its active flag and the active
\* slot, tags the region for redraw and requests a pointer-move event.
C14_TeardownComplete ==
    (~crashed /\ ctx.active_widget # NULL) =>
       \A s \in Teardowns :
          /\ ~s.ub
          /\ s.act = NULL
          /\ ~s.w[ctx.active_widget].active
          /\ ~s.w[ctx.active_widget].idata
          /\ s.tagged
          /\ s.mousemove

\* The events a running tweak ends on: the matching release, the confirm
\* signal and the cancel signal.
EndEvents == FinishEvents \cup {CancelSignal}

\* C15: a running tweak ends on the release of the event type that started
\* it, on the confirm signal and on the cancel signal; on any other event,
\* the release of another button included, it stays running with the same
\* widget and the same active widget.
C15_TweakEndsOnlyOnEndEvents ==
    (~crashed /\ tweak.running) =>
       \A e \in TweakEvents :
          LET r == widget_tweak_modal(St, e)
          IN  IF e \in EndEvents
              THEN /\ r.ret \in {"FINISHED", "CANCELLED"}
                   /\ ~r.st.tw.running
              ELSE /\ ~r.st.ub
                   /\ r.ret = "PASS_THROUGH"
                   /\ r.st.tw.running
                   /\ r.st.tw.active = tweak.active
                   /\ r.st.act = ctx.active_widget

\* C16: a widget with a bound operator occupies the active slot only if it
\* has both an invoke and a handler callback.
C16_BoundWidgetActiveOnlyWithPair ==
    (/\ ~crashed
     /\ ctx.active_widget # NULL
     /\ ~IsFreed(St, ctx.active_widget)
     /\ widgets[ctx.active_widget].kind \in OpnameKinds)
       => widgets[ctx.active_widget].kind \in InvokeHandlerKinds

\* The idnames of the widgets in the list of group g.
NamesOf(st, g) == {st.w[st.gl[g][i]].idname : i \in 1..Len(st.gl[g])}

\* A string that ends in a numeric suffix.
HasSuffix(nm) == Len(nm) > 4 /\ nm[Len(nm) - 3] = CH_DOT

\* C17: the idnames of the widgets of a group are pairwise different after
\* any sequence of wm_widget_register calls, and a call whose name collides
\* with one of the group yields the name with a numeric suffix.
C17_IdnamesUniqueInGroup ==
    ~crashed =>
       /\ \A g \in GroupSet : Cardinality(NamesOf(St, g)) = Len(glist[g])
       /\ \A g \in GroupSet, name \in RegNames :
             LET s == wm_widget_register(St, g, 1, name, FALSE)
                 new == s.w[Len(s.w)].idname
                 base == IF IdnameBase(g, name) = <<>> THEN DefName
                         ELSE IdnameBase(g, name)
             IN  /\ new \notin NamesOf(St, g)
                 /\ base \in NamesOf(St, g)
                       => HasSuffix(new) /\ SubSeq(new, 1, Len(new) - 4) = base

\* Three widgets were registered in one group with the same name: the
\* second and the third carry different suffixes.
C17_RepeatedNameSuffixed ==
    /\ ~crashed
    /\ \E g \in GroupSet :
          /\ Len(glist[g]) = 3
          /\ \A i \in {2, 3} :
                LET nm == widgets[glist[g][i]].idname
                IN  HasSuffix(nm)
                    /\ SubSeq(nm, 1, Len(nm) - 4) = widgets[glist[g][1]].idname

RECURSIVE CacheOfGroups(_, _)
\* The loop over the groups of the update pass, reduced to its insertion of
\* the unhidden widgets of the groups whose poll passes.
CacheOfGroups(st, gs) ==
    IF gs = <<>> THEN st
    ELSE CacheOfGroups(IF st.poll[Head(gs)] THEN UpdateInsert(st, st.gl[Head(gs)])
                       ELSE st,
                       Tail(gs))

\* C18: no two widgets of different groups of the map have the same idname,
\* and looking up the idname of a visible widget in the cache built from the
\* groups yields a widget of the same group.
C18_IdnamesDifferAcrossGroups ==
    ~crashed =>
       LET h == CacheOfGroups(St, groups).dw
       IN  /\ \A g1, g2 \in GroupSet :
                 g1 # g2 => NamesOf(St, g1) \cap NamesOf(St, g2) = {}
           /\ \A p \in Listed(St) :
                 (~widgets[p].hidden /\ poll[widgets[p].wgroup]) =>
                    widgets[BLI_ghash_lookup(h, widgets[p].idname)].wgroup
                       = widgets[p].wgroup

\* C19: a draw pass called while the cache does not exist reads no cache:
\* with every widget the context refers to alive, the pass makes no invalid
\* access, whatever the groups, the active slot and the selected array are.
C19_DrawWithoutCacheReadsNone ==
    (/\ ~crashed
     /\ draw_widgets.null
     /\ Listed(St) # {}
     /\ ctx.active_widget # NULL => ~IsFreed(St, ctx.active_widget)
     /\ \A i \in 1..ctx.tot_selected : ~IsFreed(St, ctx.selected_widgets[i]))
       => \A free_drawwidgets \in BOOLEAN :
             ~WM_widgetmap_widgets_draw(St, free_drawwidgets).ub

\* C20: the select operator invoked while no widget is highlighted reports
\* cancelled and pass-through and leaves the selected array, its count and
\* the selected flags of the widgets as they were, for every combination of
\* extend, deselect and toggle.
C20_SelectWithoutHighlightNoOp ==
    (~crashed /\ ctx.highlighted_widget = NULL) =>
       \A extend, deselect, toggle \in BOOLEAN :
          LET r == widget_select_invoke(St, extend, deselect, toggle)
          IN  /\ r.ret = "CANCELLED_PASS_THROUGH"
              /\ r.st.sel = ctx.selected_widgets
              /\ r.st.tot = ctx.tot_selected
              /\ \A p \in 1..Len(widgets) : r.st.w[p].selected = widgets[p].selected

\* The calls of select callbacks a call made.
SelectCalls(s) == Cardinality({i \in 1..Len(s.log) : s.log[i] = "select"})

\* The live widgets with a select callback whose selected flag a call changed.
SelectChanges(s) ==
    {p \in 1..Len(widgets) :
        /\ ~IsFreed(St, p)
        /\ widgets[p].kind \in SelectableKinds
        /\ s.w[p].selected # widgets[p].selected}

\* What the selection operations return: single select, single deselect,
\* select-all and deselect-all.
SelectionResults ==
    {wm_widget_select(St, p) : p \in Listed(St)}
       \cup {wm_widget_deselect(St, p) : p \in {q \in Listed(St) : widgets[q].selected}}
       \cup {WM_widgetmap_select_all(St, i.action, i.order).st : i \in SelectAllInputs}

\* C21: every selection operation calls the select callback once for each
\* widget with such a callback that it selects or deselects.
C21_SelectCallbackOnEveryChange ==
    (/\ ~crashed
     /\ \A p \in Listed(St) : ~IsFreed(St, p)
     /\ \A i \in 1..ctx.tot_selected : ~IsFreed(St, ctx.selected_widgets[i]))
       => \A s \in SelectionResults :
             ~s.ub => SelectCalls(s) >= Cardinality(SelectChanges(s))

\* The live widgets of the map in a state a call returns that are not hidden
\* and whose group passes its poll.
VisibleWidgets(s) ==
    {p \in Listed(s) :
        ~IsFreed(s, p) /\ ~s.w[p].hidden /\ s.poll[s.w[p].wgroup]}

\* C22: after an update pass the cache holds every visible widget of the map
\* under its idname, and nothing else.
C22_CacheExactlyVisible ==
    ~crashed =>
       \A f \in UpdateInputs :
          LET s == WM_widgetmap_widgets_update(St, f.mk, f.hid)
          IN  ~s.ub =>
                 /\ \A p \in VisibleWidgets(s) :
                       BLI_ghash_lookup(s.dw, s.w[p].idname) = p
                 /\ \A n \in DOMAIN s.dw : s.dw[n] \in VisibleWidgets(s)

\* C23: a live widget that carries the highlight flag is the widget in the
\* highlighted slot; and wm_widgetmap_set_highlighted_widget moving the
\* highlight from a widget to another one or to none clears the flag and the
\* part of the former, marks the latter and tags the region for redraw.
C23_SingleHighlight ==
    ~crashed =>
       /\ \A p \in 1..Len(widgets) :
             (~IsFreed(St, p) /\ widgets[p].highlight) => p = ctx.highlighted_widget
       /\ \A w \in {NULL} \cup {p \in Listed(St) : ~IsFreed(St, p)}, part \in Parts :
             LET old == ctx.highlighted_widget
                 s == wm_widgetmap_set_highlighted_widget(St, w, part)
             IN  (old # NULL /\ old # w) =>
                    /\ ~s.ub
                    /\ ~s.w[old].highlight
                    /\ s.w[old].part = 0
                    /\ s.hl = w
                    /\ w # NULL => s.w[w].highlight /\ s.w[w].part = part
                    /\ s.tagged

\* C24: a call of wm_widgetmap_set_highlighted_widget that changes the
\* highlight sets the cursor from the cursor callback of the new widget if
\* it has one, and to the default cursor if it has none or if there is no
\* new widget.
C24_CursorFollowsHighlight ==
    (/\ ~crashed
     /\ ctx.highlighted_widget # NULL => ~IsFreed(St, ctx.highlighted_widget))
       => \A w \in {NULL} \cup {p \in Listed(St) : ~IsFreed(St, p)}, part \in Parts :
             LET s == wm_widgetmap_set_highlighted_widget(St, w, part)
             IN  (w # ctx.highlighted_widget \/ (w # NULL /\ part # widgets[w].part))
                    => s.cursor = IF w # NULL /\ widgets[w].kind \in CursorKinds
                                  THEN "widget" ELSE "CURSOR_STD"

PrecisionSignals ==
    [type : {"EVT_MODAL_MAP"},
     val : {"TWEAK_MODAL_PRECISION_ON", "TWEAK_MODAL_PRECISION_OFF"}]

\* What the handler of widget a is called with while the precise flag has
\* the value f: nothing if a has no handler.
HandlerLog(a, f) ==
    IF widgets[a].kind \in HandlerKinds
    THEN <<IF f THEN "handler_precise" ELSE "handler">>
    ELSE <<>>

\* C25: a precision-on or precision-off signal during a tweak sets or clears
\* the precise flag and changes nothing else of the tweak, which stays
\* running; the handler of the active widget is called with the new value
\* of the flag for the signal and for the events after it.
C25_PrecisionFlagOnly ==
    (~crashed /\ tweak.running) =>
       \A e \in PrecisionSignals :
          LET on == e.val = "TWEAK_MODAL_PRECISION_ON"
              r == widget_tweak_modal(St, e)
          IN  /\ ~r.st.ub
              /\ r.ret = "PASS_THROUGH"
              /\ r.st.tw = [tweak EXCEPT !.precise = on]
              /\ r.st.act = ctx.active_widget
              /\ r.st.log = HandlerLog(tweak.active, on)
              /\ \A e2 \in TweakEvents \ (EndEvents \cup PrecisionSignals) :
                    LET r2 == widget_tweak_modal([r.st EXCEPT !.log = <<>>], e2)
                    IN  r2.st.tw.precise = on
                        /\ r2.st.log = HandlerLog(tweak.active, on)

\* C26: an event that reaches the running tweak and is not the release of
\* the initiating event type, confirm or cancel is passed exactly once to
\* the handler of the active widget, and the tweak reports pass-through and
\* keeps running; the handler is not called for the other events.
C26_NonTerminalEventsForwarded ==
    (~crashed /\ tweak.running) =>
       \A e \in TweakEvents :
          LET r == widget_tweak_modal(St, e)
              calls == Cardinality({i \in 1..Len(r.st.log) :
                                       r.st.log[i] \in {"handler", "handler_precise"}})
          IN  IF e \in EndEvents
              THEN calls = 0
              ELSE /\ ~r.st.ub
                   /\ calls = 1
                   /\ r.ret = "PASS_THROUGH"
                   /\ r.st.tw.running

RECURSIVE ListsInOrder(_, _)
\* The widgets of the groups gs: groups in the order of the map, the
\* widgets of a group in the order of its list.
ListsInOrder(st, gs) ==
    IF gs = <<>> THEN <<>> ELSE st.gl[Head(gs)] \o ListsInOrder(st, Tail(gs))

\* The positions of that order whose widget takes part in a 2D pick: its
\* group passes poll and it has an intersect callback.
Tested2D(seq) ==
    {i \in 1..Len(seq) :
        /\ widgets[seq[i]].kind \in IntersectKinds
        /\ \E g \in SeqRange(groups) : poll[g] /\ seq[i] \in SeqRange(glist[g])}

PartCodes == 0..255

\* The result of a 3D pick whose only hit is the id the widget at position i
\* of the pick list leaves for its part p.
PickOfId(i, p) ==
    wm_widget_find_highlighted_3D(St, <<[dep |-> 0, val |-> SelectionBase(i) + p]>>, <<>>)

\* C28: for every position i of the pick list and every sub-part code p, the
\* winning id made of the selection base of position i and of p resolves to
\* the widget at position i, with part p.
C28_PickIdRoundTrip ==
    ~crashed =>
       \A i \in 1..Len(wm_prepare_visible_widgets_3D(St)), p \in PartCodes :
          LET r == PickOfId(i, p)
          IN  ~r.ub /\ r.widget = wm_prepare_visible_widgets_3D(St)[i] /\ r.part = p

\* Two widgets are in the pick list and the id of the second with the
\* highest part resolves to it.
C28_SecondWidgetHighestPart ==
    /\ ~crashed
    /\ Len(wm_prepare_visible_widgets_3D(St)) >= 2
    /\ PickOfId(2, 255).widget = wm_prepare_visible_widgets_3D(St)[2]
    /\ PickOfId(2, 255).part = 255
    /\ PickOfId(1, 255).widget = wm_prepare_visible_widgets_3D(St)[1]

\* The widget and the part an id stands for in the pick list of the state.
Decoded(id) ==
    [widget |-> wm_prepare_visible_widgets_3D(St)[(id \div 256) + 1],
     part |-> id % 256]

\* C29: the 3D pick runs only the coarse pass when that pass has no hit,
\* and then returns no widget and part 0; otherwise it also runs the fine
\* pass, and returns what the id of the fine pass stands for if that pass
\* has a hit, and what the id of the coarse pass stands for if it has none.
C29_FinePassRefinesCoarse ==
    ~crashed =>
       LET n == Len(wm_prepare_visible_widgets_3D(St))
       IN  \A coarse \in SceneBuffers(n), fine \in SceneBuffers(n) :
              LET r == wm_widget_find_highlighted_3D(St, coarse, fine)
                  id1 == wm_widget_find_highlighted_3D_intern(coarse)
                  id2 == wm_widget_find_highlighted_3D_intern(fine)
              IN  IF coarse = <<>>
                  THEN r.widget = NULL /\ r.part = 0 /\ r.calls = n
                  ELSE /\ r.calls = 2 * n
                       /\ ~r.ub
                       /\ r.widget = Decoded(IF fine # <<>> THEN id2 ELSE id1).widget
                       /\ r.part = Decoded(IF fine # <<>> THEN id2 ELSE id1).part

\* A pick whose coarse pass hits one widget and whose fine pass hits
\* another one returns the latter, and the former when the fine pass has no
\* hit.
C29_FineHitReplaces ==
    /\ ~crashed
    /\ LET n == Len(wm_prepare_visible_widgets_3D(St))
       IN  \E coarse \in SceneBuffers(n), fine \in SceneBuffers(n) :
              LET r == wm_widget_find_highlighted_3D(St, coarse, fine)
                  r0 == wm_widget_find_highlighted_3D(St, coarse, <<>>)
              IN  /\ Len(coarse) = 1 /\ Len(fine) = 1
                  /\ r0.widget = Decoded(coarse[1].val).widget
                  /\ r.widget = Decoded(fine[1].val).widget
                  /\ r.widget # r0.widget

\* The live selectable widgets of the map that are not hidden and whose
\* group passes poll.
VisibleSelectable ==
    {p \in VisibleWidgets(St) : widgets[p].kind \in SelectableKinds}

\* C30: after WM_widgetmap_select_all with SEL_SELECT the selected array
\* holds each visible selectable widget of the map once and nothing else,
\* the count is their number, and the live widgets that carry the selected
\* flag are these widgets.
C30_SelectAllExactlyVisibleSelectable ==
    ~crashed =>
       \A i \in {j \in SelectAllInputs : j.action = "SEL_SELECT"} :
          LET s == WM_widgetmap_select_all(St, i.action, i.order).st
          IN  ~s.ub =>
                 /\ SeqRange(s.sel) = VisibleSelectable
                 /\ Len(s.sel) = Cardinality(VisibleSelectable)
                 /\ s.tot = Cardinality(VisibleSelectable)
                 /\ \A p \in 1..Len(s.w) :
                       ~IsFreed(s, p) => (s.w[p].selected <=> p \in VisibleSelectable)

\* C31: the select operator invoked with extend, deselect and toggle all
\* false while a widget is highlighted reports finished and leaves exactly
\* that widget selected: it is the one entry of the array, the count is 1
\* and no other live widget carries the selected flag.
C31_PlainSelectReplacesSelection ==
    (~crashed /\ ctx.highlighted_widget # NULL) =>
       LET h == ctx.highlighted_widget
           r == widget_select_invoke(St, FALSE, FALSE, FALSE)
       IN  /\ ~r.st.ub
           /\ r.ret = "FINISHED"
           /\ r.st.sel = <<h>>
           /\ r.st.tot = 1
           /\ \A p \in 1..Len(widgets) :
                 ~IsFreed(r.st, p) => (r.st.w[p].selected <=> p = h)

\* The presses of the current state on a highlighted widget bound to an
\* operator name that WM_operatortype_find does not resolve.
UnresolvedPresses ==
    IF crashed \/ ctx.active_widget # NULL \/ tweak.running \/ ophandler # "none"
    THEN {}
    ELSE {i \in PressInputs :
            /\ ~IsFreed(St, ctx.highlighted_widget)
            /\ widgets[ctx.highlighted_widget].kind \in OpnameKinds
            /\ ~i.found}

\* C32: a press on a highlighted widget whose bound operator name is not
\* resolved ends without an invalid access, with the active slot empty, the
\* active flag of the widget not set and no tweak started.
C32_UnresolvedOperatorEndsPress ==
    \A i \in UnresolvedPresses :
       LET widget == ctx.highlighted_widget
           r == widget_tweak_invoke(St, PressEvent, i.found, i.modal, i.running)
       IN  /\ ~r.st.ub
           /\ r.st.act = NULL
           /\ ~r.st.w[widget].active
           /\ ~r.st.tw.running

\* C33: select-all on a map without a selectable widget in a group passing
\* poll makes no invalid access, leaves the selected array empty with count
\* 0 and the highlight as it was, and returns that nothing changed.
C33_SelectAllOnEmptyMapHarmless ==
    (~crashed /\ SelectableHash(St) = {}) =>
       LET r == WM_widgetmap_select_all(St, "SEL_SELECT", <<>>)
       IN  /\ ~r.st.ub
           /\ r.st.sel = <<>>
           /\ r.st.tot = 0
           /\ r.st.hl = ctx.highlighted_widget
           /\ ~r.changed

\* What a press on the highlighted widget can meet when the operator bound
\* to a widget may be any operator type: found, with or without a modal
\* callback, staying running or not.
AnyOperatorPresses ==
    IF crashed \/ ctx.active_widget # NULL \/ tweak.running \/ ophandler # "none"
       \/ ctx.highlighted_widget = NULL
    THEN {}
    ELSE {i \in [found : BOOLEAN, modal : BOOLEAN, running : BOOLEAN] :
            /\ ~IsFreed(St, ctx.highlighted_widget)
            /\ i.running => i.modal
            /\ i.modal => i.found
            /\ widgets[ctx.highlighted_widget].kind \notin OpnameKinds => ~i.found}

\* C34: while a tweak runs, the widget its private state refers to is a
\* live widget and is the active widget of the map: in every state with a
\* running tweak, after every invoke that starts a tweak, and after every
\* update pass that runs during one.
C34_TweakWidgetLiveAndActive ==
    /\ (~crashed /\ tweak.running) =>
          /\ tweak.active # NULL
          /\ ~IsFreed(St, tweak.active)
          /\ tweak.active = ctx.active_widget
          /\ \A f \in UpdateInputs :
                LET s == WM_widgetmap_widgets_update(St, f.mk, f.hid)
                IN  ~IsFreed(s, tweak.active) /\ s.act = tweak.active /\ s.tw = tweak
    /\ \A i \in AnyOperatorPresses :
          LET r == widget_tweak_invoke(St, PressEvent, i.found, i.modal, i.running)
          IN  (~r.st.ub /\ r.st.tw.running) =>
                 /\ r.st.tw.active = r.st.act
                 /\ ~IsFreed(r.st, r.st.tw.active)

\* The widgets whose draw callback the loop over draw_widgets of a draw pass
\* calls (lines 377-385): none when the map has an active widget or no group.
DrawnWidgets(st) ==
    IF st.act # NULL \/ st.groups = <<>> \/ st.dwNull THEN {}
    ELSE {st.dw[n] : n \in DOMAIN st.dw}

\* The two orders in which a redraw cycle can go through the two maps.
MapOrders == {<<1, 2>>, <<2, 1>>}

\* C35: when the two maps of a region are updated and then drawn in one
\* redraw cycle, the draw pass of the first calls the draw callback only of
\* widgets of its own groups, and after its final draw has freed the cache
\* the draw pass of the second makes no invalid access.
C35_DrawIsolatedPerMap ==
    ~crashed =>
       \A o \in MapOrders, f1, f2 \in Factories :
          LET a == WM_widgetmap_widgets_update(MapSt(St, o[1]), f1.mk, f1.hid)
              b == WM_widgetmap_widgets_update(MapSt(a, o[2]), f2.mk, f2.hid)
              c == WM_widgetmap_widgets_draw(MapSt(b, o[1]), TRUE)
              d == WM_widgetmap_widgets_draw(MapSt(c, o[2]), TRUE)
          IN  (~a.ub /\ ~b.ub) =>
                 /\ DrawnWidgets(MapSt(b, o[1])) \subseteq SeqRange(b.gl[o[1]])
                 /\ ~c.ub
                 /\ ~d.ub

\* What the 2D pick returns for every event, and what the 3D pick returns
\* for every pair of hit buffers of its two passes.
Picks2D == {wm_widget_find_highlighted(St, hit) : hit \in [1..Len(widgets) -> Parts]}

Picks3D ==
    UNION {{wm_widget_find_highlighted_3D(St, c, f) : f \in FineBuffers(c)} :
             c \in SceneBuffers(Len(wm_prepare_visible_widgets_3D(St)))}

\* C36: the widget a pick returns, in 2D mode as in 3D mode, is not hidden
\* and belongs to a group that passes its poll.
C36_PickReturnsVisibleWidget ==
    ~crashed =>
       \A r \in Picks2D \cup Picks3D :
          r.widget # NULL =>
             /\ ~widgets[r.widget].hidden
             /\ poll[widgets[r.widget].wgroup]

\* An event that ends the tweak reaches its modal handler: the release of
\* the initiating event type, confirm or cancel.
TweakEnd ==
    /\ ~crashed
    /\ tweak.running
    /\ \E event \in EndEvents : Commit(widget_tweak_modal(St, event).st)
    /\ UNCHANGED <<is_3d, pick3d, type_idname>>

\* The operations that set and clear the active slot, with the redraws,
\* pointer motion and the changes of the groups between them.
NextLive ==
    \/ Redraw
    \/ PollChange
    \/ MouseMove
    \/ Press
    \/ TweakEvent
    \/ TweakCancel
    \/ OpUpdate
    \/ OpEnd
    \/ Unregister

\* Their behaviours in which a running tweak eventually receives an event
\* that ends it and a running bound operator eventually ends.
SpecLive ==
    Init /\ [][NextLive]_vars /\ WF_vars(TweakEnd) /\ WF_vars(OpEnd)

\* C37: whenever the active slot is set it is eventually empty again,
\* without the process having died of an invalid access on the way.
C37_ActiveEventuallyCleared ==
    (ctx.active_widget # NULL) ~> (~crashed /\ ctx.active_widget = NULL)

\* C38: an update pass that runs while a widget is active calls no group
\* factory, frees and creates no widget and leaves the lists of the groups,
\* the highlighted slot, the selected array and every widget as they are;
\* the cache changes only by the entry of the active widget, written under
\* its idname if the widget is not hidden.
C38_UpdateWhileActiveKeepsWidgets ==
    (~crashed /\ ctx.active_widget # NULL) =>
       \A f \in Factories :
          LET a == ctx.active_widget
              s == WM_widgetmap_widgets_update(St, f.mk, f.hid)
              h == IF draw_widgets.null THEN EmptyHash ELSE draw_widgets.h
          IN  /\ ~s.ub
              /\ s.w = widgets
              /\ s.gl = glist
              /\ s.hl = ctx.highlighted_widget
              /\ s.sel = ctx.selected_widgets
              /\ s.tot = ctx.tot_selected
              /\ s.act = a
              /\ s.log = <<>>
              /\ ~s.dwNull
              /\ s.dw = IF widgets[a].hidden THEN h
                        ELSE BLI_ghash_reinsert(h, widgets[a].idname, a)

\* The operations on the selection and the update pass, from the current
\* state.
SelectionSteps ==
    SelectionResults
       \cup {WM_widgetmap_widgets_update(St, f.mk, f.hid) : f \in UpdateInputs}

\* The selected array holds no widget twice and has as many entries as the
\* count says.
SelectedArrayWellFormed(s) ==
    /\ Len(s.sel) = s.tot
    /\ \A i, j \in 1..Len(s.sel) : s.sel[i] = s.sel[j] => i = j

\* C39: the selected array holds no widget twice and the count is its
\* number of entries, in every state and after every select, deselect,
\* select-all, deselect-all and update pass; selecting a selected widget
\* changes neither the array nor the count.
C39_SelectedArrayNoDuplicates ==
    ~crashed =>
       /\ SelectedArrayWellFormed(St)
       /\ \A s \in SelectionSteps : ~s.ub => SelectedArrayWellFormed(s)
       /\ \A p \in Listed(St) :
             (~IsFreed(St, p) /\ widgets[p].selected) =>
                LET s == wm_widget_select(St, p)
                IN  s.sel = ctx.selected_widgets /\ s.tot = ctx.tot_selected

\* C40: the modal update of a handler whose operator no longer runs leaves
\* the map that had an active widget with an empty active slot and the
\* widget without active flag and interaction data; the modal update of a
\* handler whose operator still runs leaves the active slot and the flag
\* as they are.
C40_ModalUpdateDeactivatesWhenOpEnded ==
    (~crashed /\ ctx.active_widget # NULL) =>
       LET a == ctx.active_widget
           ended == wm_widget_handler_modal_update(St, FALSE)
           going == wm_widget_handler_modal_update(St, TRUE)
       IN  /\ ~ended.ub
           /\ ended.act = NULL
           /\ ~ended.w[a].active
           /\ ~ended.w[a].idata
           /\ ~going.ub
           /\ going.act = a
           /\ going.w = widgets
====
